---- MODULE Spec2Model ----
(***************************************************************************)
(* sprofile: per-job resource accounting for a SLURM job.                  *)
(*                                                                         *)
(* Two parts of src/sprofile/sprofile.py are modelled:                     *)
(*   - main() and the Semaphore lock file: several invocations of the      *)
(*     tool (one per process) for one job, on several hosts, sharing the   *)
(*     cache directory (specification Spec);                               *)
(*   - NVMLStats.usage_stats, the interval-overlap aggregation of the GPU  *)
(*     accounting records, as a function applied to record lists drawn     *)
(*     from bounded sets (specification SpecAgg).                          *)
(* Quotients (loads) are kept as exact fractions <<numerator, denominator>>*)
(***************************************************************************)
EXTENDS Integers, Sequences, FiniteSets, TLC

\* ---------------------------------------------------------------- bounds
NumProcs == 2       \* invocations of the tool
MaxSleeps == 1      \* Semaphore(lock_file, timeout): the sleeps of 0.1 s that
                    \* the timeout allows (the default of 10 s allows 100)
MaxRecords == 2     \* accounting records of a device
MaxStart == 2       \* latest startTime of an accounting record
MaxJobStart == 1    \* latest StartTime of the job
MaxCalls == 6       \* calls of num_gpus() and with-blocks of NVMLHandle

\* ------------------------------------------------------- program constants
NsPerSecond == 1000000000   \* run_time * 1e9
GiB == 1073741824           \* 1024**3

Procs == 1..NumProcs

\* The nodes of the job: one with a GPU, one with pynvml but no device, one
\* without pynvml.  memory is nvmlDeviceGetMemoryInfo(h).total.
Cluster ==
    [node1 |-> [pynvml |-> TRUE, devices |-> 1, memory |-> 2],
     node2 |-> [pynvml |-> TRUE, devices |-> 0, memory |-> 0],
     node3 |-> [pynvml |-> FALSE, devices |-> 0, memory |-> 0]]
Hosts == DOMAIN Cluster

\* The cores of a node, the values of a cumulative counter (cpu time,
\* energy), the RunTime of the job description in seconds.
Cores == {0, 1}
CounterValues == {0, 1}
RunTimes == {0, 1}

None == "None"
NoError == "NoError"

ReportLines == <<"header", "Time", "CPU load", "RAM peak",
                 "GPU load", "GPU peak mem", "GPU energy">>

\* ------------------------------------------------------------- helpers
Max(a, b) == IF a >= b THEN a ELSE b

RECURSIVE SumSeq(_)
SumSeq(s) == IF s = <<>> THEN 0 ELSE Head(s) + SumSeq(Tail(s))

\* Counter vectors, as the cgroup file lists them (index = core id).
CounterVectors == [Cores -> CounterValues]

\* cpuset.cpus after parsing: a list of core ids ("0", "1", "0-1", "1,0").
CpuSets == {s \in UNION {[1..n -> Cores] : n \in 1..Cardinality(Cores)} :
              \A i, j \in DOMAIN s : i # j => s[i] # s[j]}

\* Fractions <<n, d>> with d > 0.
FracEq(x, y) == x[1] * y[2] = y[1] * x[2]
FracAdd(x, y) == <<x[1] * y[2] + y[1] * x[2], x[2] * y[2]>>

RECURSIVE FracSum(_)
FracSum(s) == IF s = <<>> THEN <<0, 1>> ELSE FracAdd(Head(s), FracSum(Tail(s)))

RECURSIVE MinSeq(_)
MinSeq(s) ==
    IF Len(s) = 1 THEN s[1]
    ELSE IF Head(s) <= MinSeq(Tail(s)) THEN Head(s) ELSE MinSeq(Tail(s))

RECURSIVE MaxSeq(_)
MaxSeq(s) == IF Len(s) = 1 THEN s[1] ELSE Max(Head(s), MaxSeq(Tail(s)))

\* sorted(): insertion into an ascending list.
RECURSIVE Insert(_, _)
Insert(x, s) ==
    IF s = <<>> THEN <<x>>
    ELSE IF x <= Head(s) THEN <<x>> \o s
    ELSE <<Head(s)>> \o Insert(x, Tail(s))

RECURSIVE sorted(_)
sorted(s) == IF s = <<>> THEN <<>> ELSE Insert(Head(s), sorted(Tail(s)))

\* ---------------------------------------------- NVMLStats.usage_stats
\* An accounting record of pynvml.nvmlDeviceGetAccountingStats.
EndTime(s) == s.startTime + s.time

\* Variant: a record is kept when it ends after the start of the job.
FilterStatsByEnd(ss, st) == SelectSeq(ss, LAMBDA s : EndTime(s) >= st)

\* Variant: a record that began before the job is clipped to the start of
\* the job instead of being dropped.
FilterStatsClipped(ss, st) ==
    LET live == SelectSeq(ss, LAMBDA s : EndTime(s) >= st)
    IN  [i \in 1..Len(live) |->
            IF live[i].startTime >= st THEN live[i]
            ELSE [live[i] EXCEPT !.startTime = st,
                                 !.time = EndTime(live[i]) - st]]

\* stats = [s for s in stats if s.startTime >= start_time]
FilterStats(ss, st) == SelectSeq(ss, LAMBDA s : s.startTime >= st)

\* sorted([s.startTime for s in stats] + [s.startTime + s.time for s in stats])
TimeSplits(ss) ==
    sorted([i \in 1..Len(ss) |-> ss[i].startTime]
           \o [i \in 1..Len(ss) |-> EndTime(ss[i])])

\* Variant: the end of a record is compared strictly.
CoversStrictly(s, start, stop) == s.startTime <= start /\ EndTime(s) > stop

\* if s.startTime <= start and s.startTime + s.time >= stop
Covers(s, start, stop) == s.startTime <= start /\ EndTime(s) >= stop

\* The inner loop: the sums over the records that cover (start, stop).
RECURSIVE SplitSum(_, _, _, _)
SplitSum(ss, start, stop, field) ==
    IF ss = <<>> THEN 0
    ELSE (IF Covers(Head(ss), start, stop) THEN Head(ss)[field] ELSE 0)
         + SplitSum(Tail(ss), start, stop, field)

\* The outer loop over zip(timesplits[0:-1], timesplits[1:]), from pair i on:
\* gpu_util += gpu_util_split * (stop - start)
RECURSIVE GpuUtil(_, _, _)
GpuUtil(ss, ts, i) ==
    IF i >= Len(ts) THEN 0
    ELSE SplitSum(ss, ts[i], ts[i + 1], "gpuUtilization") * (ts[i + 1] - ts[i])
         + GpuUtil(ss, ts, i + 1)

\* peak_mem = max(peak_mem, peak_mem_split)
RECURSIVE PeakMem(_, _, _)
PeakMem(ss, ts, i) ==
    IF i >= Len(ts) THEN 0
    ELSE Max(SplitSum(ss, ts[i], ts[i + 1], "maxMemoryUsage"),
             PeakMem(ss, ts, i + 1))

\* Variant: the quotient is by the last endpoint, not by the span.
FinalUtilByLast(gpu_util, ts) ==
    IF Len(ts) = 0 THEN <<0, 1>>
    ELSE <<gpu_util, 100 * Max(ts[Len(ts)], 1)>>

\* gpu_util / 100 / max(timesplits[-1] - timesplits[0], 1), or 0 when
\* there are no timesplits.
FinalUtil(gpu_util, ts) ==
    IF Len(ts) = 0 THEN <<0, 1>>
    ELSE <<gpu_util, 100 * Max(ts[Len(ts)] - ts[1], 1)>>

\* Lines 123-145: the aggregation of the records that were kept.
Aggregate(kept, total_mem) ==
    LET ts == TimeSplits(kept)
    IN  [gpu_util |-> FinalUtil(GpuUtil(kept, ts, 1), ts),
         peak_mem |-> PeakMem(kept, ts, 1),
         total_mem |-> total_mem]

usage_stats(ss, st, total_mem) == Aggregate(FilterStats(ss, st), total_mem)

\* A value that is absent (a missing key of a shelve, a call that has not
\* returned), or one value that is present.
Missing == <<>>
Stored(v) == <<v>>
Value(e) == e[1]

\* The accounting records a device may report.
Durations == {0, 1, 100}
Utilizations == {30, 40, 50}
Memories == {1, 2}
Records == [startTime : 0..MaxStart, time : Durations,
            gpuUtilization : Utilizations, maxMemoryUsage : Memories]
RecordLists == UNION {[1..n -> Records] : n \in 0..MaxRecords}

\* The record lists of the devices of the modelled nodes.
DeviceStats ==
    {<<>>,
     <<[startTime |-> MaxJobStart, time |-> 100, gpuUtilization |-> 50,
        maxMemoryUsage |-> 1]>>}

VARIABLES
    pc,        \* position of each invocation in main()
    action,     \* args.action of the invocation
    host,       \* hostname of the invocation
    timeout,    \* Semaphore.__enter__'s local timeout, in sleeps of 0.1 s
                \* (0 outside the loop, -1 once TimeoutError is raised)
    error,      \* exception that is propagating in / has ended the invocation
    lock,       \* the lock file sprofile.<job>.lock exists
    db,         \* the shelve of each host: sprofile.<job>.<host>
    out,        \* standard output of the job: lines, each with its printer
    run_time,   \* RunTime parsed from job_info
    cpu_load,   \* CGroupStats.stop: sum(cpu_load), a fraction
    num_cpus,   \* CGroupStats.stop: len(cpu_load)
    gpu_report, \* NVMLStats.stop: the tuple it returns
    stats,      \* usage_stats: the accounting records of the device
    start_time, \* usage_stats: StartTime of the job description
    result,     \* usage_stats: the tuple it returns, once it has returned
    cgroup,     \* CGroupStats.stop: the values it reads
    cgroup_result, \* CGroupStats.stop: what it returns or raises
    nvml        \* the calls of nvmlInit and nvmlShutdown so far

procvars == <<pc, action, host, timeout, error, lock, db, out,
              run_time, cpu_load, num_cpus, gpu_report>>
aggvars == <<stats, start_time, result>>
cgvars == <<cgroup, cgroup_result>>
purevars == <<aggvars, cgvars, nvml>>
vars == <<procvars, purevars>>

\* The values of the variables of the stand-alone calls while no such call
\* is made.
NoCGroup == [usage_percpu_old |-> [c \in Cores |-> 0],
             usage_percpu |-> [c \in Cores |-> 0],
             cpuset |-> <<0>>, seconds |-> 0]
NoNvml == [calls |-> 0, inits |-> 0, shutdowns |-> 0, leaked |-> 0, stray |-> 0]

EmptyDb == [usage_percpu_old |-> Missing, energy_usage_old |-> Missing]

Init ==
    /\ pc = [p \in Procs |-> "idle"]
    /\ action = [p \in Procs |-> None]
    /\ host = [p \in Procs |-> "node1"]
    /\ timeout = [p \in Procs |-> 0]
    /\ error = [p \in Procs |-> NoError]
    /\ lock = FALSE
    /\ db = [h \in Hosts |-> EmptyDb]
    /\ out = <<>>
    /\ run_time = [p \in Procs |-> Missing]
    /\ cpu_load = [p \in Procs |-> Missing]
    /\ num_cpus = [p \in Procs |-> Missing]
    /\ gpu_report = [p \in Procs |-> Missing]
    /\ stats = <<>>
    /\ start_time = 0
    /\ result = Missing
    /\ cgroup = NoCGroup
    /\ cgroup_result = Missing
    /\ nvml = NoNvml

\* ------------------------------------------------------------ num_gpus
\* The outcomes of one call of num_gpus() on host h: the count it returns
\* or the exception it raises.  Without pynvml it returns 0 and calls
\* nothing; with pynvml, nvmlInit or nvmlDeviceGetCount may raise, and the
\* exception leaves through the finally clause.
num_gpus(h) ==
    IF ~Cluster[h].pynvml
    THEN {[count |-> 0, error |-> NoError]}
    ELSE {[count |-> Cluster[h].devices, error |-> NoError],
          [count |-> 0, error |-> "NVMLError"]}

\* What reading and parsing the cgroup files can do.
FileOutcomes == {"ok", "unreadable", "malformed"}
FileError(f) == IF f = "unreadable" THEN "OSError" ELSE "ValueError"

\* Cumulative counters never decrease: a later reading is at least the
\* baseline that an earlier reading stored.
AtLeast(u, old) ==
    IF old = Missing THEN TRUE
    ELSE \A i \in DOMAIN u \cap DOMAIN Value(old) : u[i] >= Value(old)[i]

Emit(p, lines) == [i \in 1..Len(lines) |-> [proc |-> p, line |-> lines[i]]]

\* ------------------------------------------------------------------ main
\* Lines 251-268: the rank gate, the arguments, the shelve of the host.
Main(p) ==
    /\ pc[p] = "idle"
    /\ \E localid \in {"0", "1"} :
        IF localid # "0"
        THEN /\ pc' = [pc EXCEPT ![p] = "skipped"]
             /\ UNCHANGED <<action, host, timeout>>
        ELSE \E a \in {"start", "stop"}, h \in Hosts :
             /\ action' = [action EXCEPT ![p] = a]
             /\ host' = [host EXCEPT ![p] = h]
             /\ IF a = "start"
                THEN /\ pc' = [pc EXCEPT ![p] = "cgroup_start"]
                     /\ UNCHANGED timeout
                ELSE /\ pc' = [pc EXCEPT ![p] = "sem_enter"]
                     /\ timeout' = [timeout EXCEPT ![p] = MaxSleeps]
    /\ UNCHANGED <<error, lock, db, out, run_time, cpu_load, num_cpus,
                   gpu_report, purevars>>

\* An exception outside the with-block of the lock ends the invocation.
Fail(p, e) ==
    /\ pc' = [pc EXCEPT ![p] = "failed"]
    /\ error' = [error EXCEPT ![p] = e]

\* An exception inside the with-block leaves through Semaphore.__exit__.
Raise(p, e) ==
    /\ pc' = [pc EXCEPT ![p] = "sem_exit"]
    /\ error' = [error EXCEPT ![p] = e]

\* ----------------------------------------------------------------- start
\* CGroupStats.start: the per-core counters become the baseline.
CGroupStatsStart(p) ==
    /\ pc[p] = "cgroup_start"
    /\ \E f \in FileOutcomes :
        IF f # "ok"
        THEN /\ Fail(p, FileError(f))
             /\ UNCHANGED db
        ELSE \E usage_percpu \in CounterVectors :
             /\ AtLeast(usage_percpu, db[host[p]].usage_percpu_old)
             /\ db' = [db EXCEPT
                         ![host[p]].usage_percpu_old = Stored(usage_percpu)]
             /\ pc' = [pc EXCEPT ![p] = "start_num_gpus"]
             /\ UNCHANGED error
    /\ UNCHANGED <<action, host, timeout, lock, out, run_time,
                   cpu_load, num_cpus, gpu_report, purevars>>

\* Line 264: if num_gpus() > 0
StartNumGpus(p) ==
    /\ pc[p] = "start_num_gpus"
    /\ \E r \in num_gpus(host[p]) :
        IF r.error # NoError THEN Fail(p, r.error)
        ELSE /\ pc' = [pc EXCEPT
                         ![p] = IF r.count > 0 THEN "nvml_start" ELSE "done"]
             /\ UNCHANGED error
    /\ UNCHANGED <<action, host, timeout, lock, db, out, run_time,
                   cpu_load, num_cpus, gpu_report, purevars>>

\* NVMLStats.start: the energy counter of every device becomes the baseline.
NVMLStatsStart(p) ==
    /\ pc[p] = "nvml_start"
    /\ \E r \in num_gpus(host[p]) :
        IF r.error # NoError
        THEN /\ Fail(p, r.error)
             /\ UNCHANGED db
        ELSE \E ok \in BOOLEAN :
             IF ~ok
             THEN /\ Fail(p, "NVMLError")
                  /\ UNCHANGED db
             ELSE \E energy_usage_old \in [0..(r.count - 1) -> CounterValues] :
                  /\ AtLeast(energy_usage_old, db[host[p]].energy_usage_old)
                  /\ db' = [db EXCEPT
                              ![host[p]].energy_usage_old =
                                  Stored(energy_usage_old)]
                  /\ pc' = [pc EXCEPT ![p] = "done"]
                  /\ UNCHANGED error
    /\ UNCHANGED <<action, host, timeout, lock, out, run_time,
                   cpu_load, num_cpus, gpu_report, purevars>>

\* ------------------------------------------------------------- Semaphore
\* Semaphore.__enter__: one turn of the loop.  os.open with O_CREAT|O_EXCL
\* creates the lock file or fails when it exists; after a failure the
\* process sleeps, decrements its timeout and raises TimeoutError once the
\* timeout is negative.
\* Variant: the lock file is opened without O_EXCL, so an existing file is
\* no obstacle.
SemaphoreEnterNoExcl(p) ==
    /\ pc[p] = "sem_enter"
    /\ timeout[p] >= 0
    /\ lock' = TRUE
    /\ pc' = [pc EXCEPT ![p] = "print_header"]
    /\ timeout' = [timeout EXCEPT ![p] = 0]
    /\ UNCHANGED error
    /\ UNCHANGED <<action, host, db, out, run_time, cpu_load,
                   num_cpus, gpu_report, purevars>>

\* Variant: the loop sleeps but never decrements its timeout.
SemaphoreEnterNoDecrement(p) ==
    /\ pc[p] = "sem_enter"
    /\ timeout[p] >= 0
    /\ IF ~lock
       THEN /\ lock' = TRUE
            /\ pc' = [pc EXCEPT ![p] = "print_header"]
            /\ timeout' = [timeout EXCEPT ![p] = 0]
            /\ UNCHANGED error
       ELSE UNCHANGED <<timeout, pc, error, lock>>
    /\ UNCHANGED <<action, host, db, out, run_time, cpu_load,
                   num_cpus, gpu_report, purevars>>

\* Variant: an acquirer whose timeout has run out takes the lock file for
\* stale: it removes it and creates its own.
SemaphoreEnterBreaksStale(p) ==
    /\ pc[p] = "sem_enter"
    /\ timeout[p] >= 0
    /\ IF ~lock \/ timeout[p] - 1 < 0
       THEN /\ lock' = TRUE
            /\ pc' = [pc EXCEPT ![p] = "print_header"]
            /\ timeout' = [timeout EXCEPT ![p] = 0]
            /\ UNCHANGED error
       ELSE /\ timeout' = [timeout EXCEPT ![p] = timeout[p] - 1]
            /\ UNCHANGED <<pc, error, lock>>
    /\ UNCHANGED <<action, host, db, out, run_time, cpu_load,
                   num_cpus, gpu_report, purevars>>

\* Variant: an acquirer that gives up removes the lock file on its way out.
SemaphoreEnterRemovesOnTimeout(p) ==
    /\ pc[p] = "sem_enter"
    /\ timeout[p] >= 0
    /\ IF ~lock
       THEN /\ lock' = TRUE
            /\ pc' = [pc EXCEPT ![p] = "print_header"]
            /\ timeout' = [timeout EXCEPT ![p] = 0]
            /\ UNCHANGED error
       ELSE /\ timeout' = [timeout EXCEPT ![p] = timeout[p] - 1]
            /\ IF timeout[p] - 1 >= 0
               THEN UNCHANGED <<pc, error, lock>>
               ELSE Fail(p, "TimeoutError") /\ lock' = FALSE
    /\ UNCHANGED <<action, host, db, out, run_time, cpu_load,
                   num_cpus, gpu_report, purevars>>

SemaphoreEnter(p) ==
    /\ pc[p] = "sem_enter"
    /\ timeout[p] >= 0
    /\ IF ~lock
       THEN /\ lock' = TRUE
            /\ pc' = [pc EXCEPT ![p] = "print_header"]
            \* __enter__ returns: its local is gone
            /\ timeout' = [timeout EXCEPT ![p] = 0]
            /\ UNCHANGED error
       ELSE /\ timeout' = [timeout EXCEPT ![p] = timeout[p] - 1]
            /\ IF timeout[p] - 1 >= 0
               THEN UNCHANGED <<pc, error>>
               ELSE Fail(p, "TimeoutError")
            /\ UNCHANGED lock
    /\ UNCHANGED <<action, host, db, out, run_time, cpu_load,
                   num_cpus, gpu_report, purevars>>

\* Semaphore.__exit__: os.remove(lock_file); a pending exception goes on.
\* Variant: the lock file is removed at the end of the block only, not
\* when an exception leaves it.
SemaphoreExitOnSuccess(p) ==
    /\ pc[p] = "sem_exit"
    /\ lock' = IF error[p] = NoError THEN FALSE ELSE lock
    /\ pc' = [pc EXCEPT ![p] = IF error[p] = NoError THEN "done" ELSE "failed"]
    /\ run_time' = [run_time EXCEPT ![p] = Missing]
    /\ cpu_load' = [cpu_load EXCEPT ![p] = Missing]
    /\ num_cpus' = [num_cpus EXCEPT ![p] = Missing]
    /\ gpu_report' = [gpu_report EXCEPT ![p] = Missing]
    /\ UNCHANGED <<action, host, timeout, error, db, out, purevars>>

SemaphoreExit(p) ==
    /\ pc[p] = "sem_exit"
    /\ lock' = FALSE
    /\ pc' = [pc EXCEPT ![p] = IF error[p] = NoError THEN "done" ELSE "failed"]
    \* main returns or is left by the exception: its locals are gone
    /\ run_time' = [run_time EXCEPT ![p] = Missing]
    /\ cpu_load' = [cpu_load EXCEPT ![p] = Missing]
    /\ num_cpus' = [num_cpus EXCEPT ![p] = Missing]
    /\ gpu_report' = [gpu_report EXCEPT ![p] = Missing]
    /\ UNCHANGED <<action, host, timeout, error, db, out, purevars>>

\* ------------------------------------------------------------------ stop
\* Line 269.
PrintHeader(p) ==
    /\ pc[p] = "print_header"
    /\ out' = out \o Emit(p, <<"header">>)
    /\ pc' = [pc EXCEPT ![p] = "time_stop"]
    /\ UNCHANGED <<action, host, timeout, error, lock, db, run_time,
                   cpu_load, num_cpus, gpu_report, purevars>>

\* Lines 271-272, TimeStats.stop: RunTime of job_info (the job description
\* is fetched when the module is loaded and first parsed here).
TimeStatsStop(p) ==
    /\ pc[p] = "time_stop"
    /\ \E seconds \in RunTimes :
        run_time' = [run_time EXCEPT ![p] = Stored(seconds)]
    /\ out' = out \o Emit(p, <<"Time">>)
    /\ pc' = [pc EXCEPT ![p] = "cgroup_stop"]
    /\ UNCHANGED <<action, host, timeout, error, lock, db,
                   cpu_load, num_cpus, gpu_report, purevars>>

\* Variant: the differences of all the cores of the node, whatever the
\* cpuset.
CpuTimesAllCores(usage_percpu, usage_percpu_old, cpuset) ==
    [k \in 1..Cardinality(Cores) |->
        usage_percpu[k - 1] - usage_percpu_old[k - 1]]

\* cpu_times = [usage_percpu[i] - usage_percpu_old[i] for i in cpuset]
CpuTimes(usage_percpu, usage_percpu_old, cpuset) ==
    [k \in 1..Len(cpuset) |->
        usage_percpu[cpuset[k]] - usage_percpu_old[cpuset[k]]]

\* sum(t / (run_time * 1e9) for t in cpu_times), for run_time > 0
CpuLoad(cpu_times, seconds) == <<SumSeq(cpu_times), seconds * NsPerSecond>>

\* Variant: a stop that has computed its load consumes the baseline: it
\* deletes usage_percpu_old from the shelve.
CGroupStatsStopConsuming(p) ==
    /\ pc[p] = "cgroup_stop"
    /\ \E f \in FileOutcomes :
        IF f # "ok"
        THEN /\ Raise(p, FileError(f))
             /\ UNCHANGED <<out, cpu_load, num_cpus, db>>
        ELSE \E cpuset \in CpuSets, usage_percpu \in CounterVectors :
             /\ AtLeast(usage_percpu, db[host[p]].usage_percpu_old)
             /\ IF db[host[p]].usage_percpu_old = Missing
                THEN /\ Raise(p, "KeyError")
                     /\ UNCHANGED <<out, cpu_load, num_cpus, db>>
                ELSE IF Value(run_time[p]) * NsPerSecond = 0
                THEN /\ Raise(p, "ZeroDivisionError")
                     /\ UNCHANGED <<out, cpu_load, num_cpus, db>>
                ELSE /\ cpu_load' = [cpu_load EXCEPT ![p] =
                          Stored(CpuLoad(CpuTimes(usage_percpu,
                                    Value(db[host[p]].usage_percpu_old),
                                    cpuset), Value(run_time[p])))]
                     /\ num_cpus' = [num_cpus EXCEPT ![p] =
                                       Stored(Len(cpuset))]
                     /\ out' = out \o Emit(p, <<"CPU load", "RAM peak">>)
                     /\ pc' = [pc EXCEPT ![p] = "stop_num_gpus"]
                     /\ db' = [db EXCEPT
                                 ![host[p]].usage_percpu_old = Missing]
                     /\ UNCHANGED error
    /\ UNCHANGED <<action, host, timeout, lock, run_time,
                   gpu_report, purevars>>

\* Lines 274-276, CGroupStats.stop and the two lines printed from it.
\* The cgroup files are read first, then the baseline is looked up in the
\* shelve, then the load is the quotient by run_time * 1e9.
CGroupStatsStop(p) ==
    /\ pc[p] = "cgroup_stop"
    /\ \E f \in FileOutcomes :
        IF f # "ok"
        THEN /\ Raise(p, FileError(f))
             /\ UNCHANGED <<out, cpu_load, num_cpus>>
        ELSE \E cpuset \in CpuSets, usage_percpu \in CounterVectors :
             /\ AtLeast(usage_percpu, db[host[p]].usage_percpu_old)
             /\ IF db[host[p]].usage_percpu_old = Missing
                THEN /\ Raise(p, "KeyError")
                     /\ UNCHANGED <<out, cpu_load, num_cpus>>
                ELSE IF Value(run_time[p]) * NsPerSecond = 0
                THEN /\ Raise(p, "ZeroDivisionError")
                     /\ UNCHANGED <<out, cpu_load, num_cpus>>
                ELSE /\ cpu_load' = [cpu_load EXCEPT ![p] =
                          Stored(CpuLoad(CpuTimes(usage_percpu,
                                    Value(db[host[p]].usage_percpu_old),
                                    cpuset), Value(run_time[p])))]
                     /\ num_cpus' = [num_cpus EXCEPT ![p] =
                                       Stored(Len(cpuset))]
                     /\ out' = out \o Emit(p, <<"CPU load", "RAM peak">>)
                     /\ pc' = [pc EXCEPT ![p] = "stop_num_gpus"]
                     /\ UNCHANGED error
    /\ UNCHANGED <<action, host, timeout, lock, db, run_time,
                   gpu_report, purevars>>

\* Line 278: if num_gpus() > 0
StopNumGpus(p) ==
    /\ pc[p] = "stop_num_gpus"
    /\ \E r \in num_gpus(host[p]) :
        IF r.error # NoError THEN Raise(p, r.error)
        ELSE /\ pc' = [pc EXCEPT
                         ![p] = IF r.count > 0 THEN "nvml_stop" ELSE "sem_exit"]
             /\ UNCHANGED error
    /\ UNCHANGED <<action, host, timeout, lock, db, out, run_time,
                   cpu_load, num_cpus, gpu_report, purevars>>

\* The devices for which both lists of zip(energy_usage, energy_usage_old)
\* have an entry.
RECURSIVE EnergySum(_, _, _)
EnergySum(energy_usage, energy_usage_old, i) ==
    IF i \notin DOMAIN energy_usage \cap DOMAIN energy_usage_old THEN 0
    ELSE (energy_usage[i] - energy_usage_old[i])
         + EnergySum(energy_usage, energy_usage_old, i + 1)

\* Lines 182-192: what NVMLStats.stop returns from the per-device lists.
NVMLReport(energy_usage, energy_usage_old, per_device) ==
    [gpu_avg_load |-> FracSum([i \in DOMAIN per_device |->
                                   per_device[i].gpu_util]),
     num_gpus |-> Len(per_device),
     gpu_peak_mem |-> <<MaxSeq([i \in DOMAIN per_device |->
                                   per_device[i].peak_mem]), GiB>>,
     gpu_avail_mem |-> <<MinSeq([i \in DOMAIN per_device |->
                                    per_device[i].total_mem]), GiB>>,
     \* sum((n - o) / 3.6e9 ...): kept in units of 1 / 3.6e9 kWh
     energy_used |-> EnergySum(energy_usage, energy_usage_old, 0)]

\* Lines 279-285, NVMLStats.stop: the baseline is looked up first, then
\* every device is queried under its own NVMLHandle.
NVMLStatsStop(p) ==
    /\ pc[p] = "nvml_stop"
    /\ IF db[host[p]].energy_usage_old = Missing
       THEN /\ Raise(p, "KeyError")
            /\ UNCHANGED gpu_report
       ELSE \E r \in num_gpus(host[p]) :
            IF r.error # NoError
            THEN /\ Raise(p, r.error)
                 /\ UNCHANGED gpu_report
            ELSE \E ok \in BOOLEAN :
                 IF ~ok
                 THEN /\ Raise(p, "NVMLError")
                      /\ UNCHANGED gpu_report
                 ELSE \E energy_usage \in [0..(r.count - 1) -> CounterValues],
                         device_stats \in [1..r.count -> DeviceStats] :
                      /\ AtLeast(energy_usage, db[host[p]].energy_usage_old)
                      /\ gpu_report' = [gpu_report EXCEPT ![p] =
                           Stored(NVMLReport(energy_usage,
                                      Value(db[host[p]].energy_usage_old),
                                      [i \in 1..r.count |->
                                          usage_stats(device_stats[i],
                                            MaxJobStart,
                                            Cluster[host[p]].memory)]))]
                      /\ pc' = [pc EXCEPT ![p] = "print_gpu"]
                      /\ UNCHANGED error
    /\ UNCHANGED <<action, host, timeout, lock, db, out, run_time,
                   cpu_load, num_cpus, purevars>>

\* Lines 287-291: the first line formats num_gpus(), which is called again.
PrintGpu(p) ==
    /\ pc[p] = "print_gpu"
    /\ \E r \in num_gpus(host[p]) :
        IF r.error # NoError
        THEN /\ Raise(p, r.error)
             /\ UNCHANGED out
        ELSE /\ out' = out \o Emit(p, <<"GPU load", "GPU peak mem",
                                        "GPU energy">>)
             /\ pc' = [pc EXCEPT ![p] = "sem_exit"]
             /\ UNCHANGED error
    /\ UNCHANGED <<action, host, timeout, lock, db, run_time,
                   cpu_load, num_cpus, gpu_report, purevars>>

Next ==
    \E p \in Procs :
        \/ Main(p)
        \/ CGroupStatsStart(p)
        \/ StartNumGpus(p)
        \/ NVMLStatsStart(p)
        \/ SemaphoreEnter(p)
        \/ PrintHeader(p)
        \/ TimeStatsStop(p)
        \/ CGroupStatsStop(p)
        \/ StopNumGpus(p)
        \/ NVMLStatsStop(p)
        \/ PrintGpu(p)
        \/ SemaphoreExit(p)

Spec == Init /\ [][Next]_vars

\* The scheduler keeps every process running: a process in the loop of
\* Semaphore.__enter__ eventually makes its next attempt.
FairSpec == Spec /\ \A p \in Procs : WF_vars(SemaphoreEnter(p))

\* ================================================================ claims
\* The positions inside the with-block of the lock.
InSection(p) ==
    pc[p] \in {"print_header", "time_stop", "cgroup_stop", "stop_num_gpus",
               "nvml_stop", "print_gpu", "sem_exit"}

Ended(p) == pc[p] \in {"done", "failed"}

\* The report lines that invocation p has printed, in order.
LinesOf(p) ==
    LET mine == SelectSeq(out, LAMBDA e : e.proc = p)
    IN  [i \in 1..Len(mine) |-> mine[i].line]

\* The report of a node: four lines, and three more when it has GPUs.
Applicable(h) ==
    IF Cluster[h].pynvml /\ Cluster[h].devices > 0
    THEN ReportLines ELSE SubSeq(ReportLines, 1, 4)

\* C1: at most one stop invocation of the job is inside the report section
\* at any time, and the lines of two invocations never interleave in the
\* output: between two lines of one invocation there is no line of another.
C1_Gate ==
    /\ \A p, q \in Procs : p # q => ~(InSection(p) /\ InSection(q))
    /\ \A i, j, k \in DOMAIN out :
         (i < j /\ j < k /\ out[i].proc = out[k].proc)
            => out[j].proc = out[i].proc

\* C1 witness: two invocations have both printed, one after the other.
C1_Witness ==
    \E p, q \in Procs :
        /\ p # q
        /\ Ended(p) /\ LinesOf(p) # <<>>
        /\ InSection(q) /\ LinesOf(q) # <<>>

\* C2: a stop invocation that has ended has printed all the report lines
\* that apply to its or none of them.
C2_AtomicReport ==
    \A p \in Procs :
        (Ended(p) /\ action[p] = "stop")
            => (LinesOf(p) = <<>> \/ LinesOf(p) = Applicable(host[p]))

\* C3: a stop invocation for a host whose shelve holds no baseline ends
\* with the dedicated MissingBaselineError.
C3_MissingBaselineError ==
    \A p \in Procs :
        (Ended(p) /\ action[p] = "stop"
           /\ db[host[p]].usage_percpu_old = Missing)
            => error[p] = "MissingBaselineError"

\* C4: a run time of zero seconds is guarded: no invocation is ended by a
\* division by zero.
C4_ZeroRunTimeGuarded ==
    \A p \in Procs : error[p] # "ZeroDivisionError"

\* C5: the acquisition of the lock terminates.  While a process is in the
\* loop it has between 0 and MaxSleeps sleeps left; every attempt that finds
\* no lock file acquires, every other attempt uses up one sleep; TimeoutError
\* is raised after MaxSleeps + 1 failed attempts exactly; and under fair
\* scheduling a process in the loop leaves it.
C5_AcquireTerminates ==
    /\ [](\A p \in Procs :
            /\ pc[p] = "sem_enter" => timeout[p] \in 0..MaxSleeps
            /\ error[p] = "TimeoutError" =>
                  (pc[p] = "failed" /\ MaxSleeps - timeout[p] = MaxSleeps + 1))
    /\ [][\A p \in Procs :
            (pc[p] = "sem_enter"
               /\ (pc'[p] # pc[p] \/ timeout'[p] # timeout[p]))
              => IF ~lock
                 THEN pc'[p] = "print_header" /\ lock'
                 ELSE timeout'[p] = timeout[p] - 1]_vars
    /\ \A p \in Procs :
         (pc[p] = "sem_enter") ~> (pc[p] \in {"print_header", "failed"})

\* C5 witness: a process found the lock file at every attempt and gave up.
C5_Witness ==
    \E p \in Procs : pc[p] = "failed" /\ error[p] = "TimeoutError" /\ lock

\* C6: the lock file exists only while some invocation is inside the
\* with-block: when the block is left, normally or by an exception, the
\* file is gone, and the next stop of the job can acquire it.
C6_Released ==
    (\A p \in Procs : ~InSection(p)) => ~lock

\* C6 witness: an invocation left the block by an exception, and a later
\* one has acquired the lock.
C6_Witness ==
    \E p, q \in Procs :
        /\ pc[p] = "failed" /\ error[p] \in {"KeyError", "ValueError",
                                             "OSError", "NVMLError"}
        /\ LinesOf(p) # <<>>
        /\ pc[q] = "print_header"

\* ------------------------------------------- usage_stats on its own
InitAgg ==
    /\ pc = [p \in Procs |-> "idle"]
    /\ action = [p \in Procs |-> None]
    /\ host = [p \in Procs |-> "node1"]
    /\ timeout = [p \in Procs |-> 0]
    /\ error = [p \in Procs |-> NoError]
    /\ lock = FALSE
    /\ db = [h \in Hosts |-> EmptyDb]
    /\ out = <<>>
    /\ run_time = [p \in Procs |-> Missing]
    /\ cpu_load = [p \in Procs |-> Missing]
    /\ num_cpus = [p \in Procs |-> Missing]
    /\ gpu_report = [p \in Procs |-> Missing]
    /\ stats \in RecordLists
    /\ start_time \in 0..MaxJobStart
    /\ result = Missing
    /\ cgroup = NoCGroup
    /\ cgroup_result = Missing
    /\ nvml = NoNvml

\* One call of NVMLStats.usage_stats on the records of a device.
UsageStats ==
    /\ result = Missing
    /\ result' = Stored(usage_stats(stats, start_time, Cluster.node1.memory))
    /\ UNCHANGED <<procvars, stats, start_time, cgvars, nvml>>

NextAgg == UsageStats

SpecAgg == InitAgg /\ [][NextAgg]_vars

\* ------------------------------------------------ claims on usage_stats
Returned == result # Missing

\* The records that began at or after the start of the job.
InJob(ss, st) == SelectSeq(ss, LAMBDA s : s.startTime >= st)

\* Two records are disjoint when the intervals [startTime, end) share no
\* instant.
DisjointRecords(a, b) ==
    \/ a.time = 0 \/ b.time = 0
    \/ EndTime(a) <= b.startTime \/ EndTime(b) <= a.startTime

PairwiseDisjoint(ss) ==
    \A i, j \in DOMAIN ss : i # j => DisjointRecords(ss[i], ss[j])

SetMin(S) == CHOOSE x \in S : \A y \in S : x <= y
SetMax(S) == CHOOSE x \in S : \A y \in S : x >= y
MinStart(ss) == SetMin({ss[i].startTime : i \in DOMAIN ss})
MaxEnd(ss) == SetMax({EndTime(ss[i]) : i \in DOMAIN ss})

\* sum of u_i * d_i
RECURSIVE WeightedSum(_)
WeightedSum(ss) ==
    IF ss = <<>> THEN 0
    ELSE Head(ss).gpuUtilization * Head(ss).time + WeightedSum(Tail(ss))

RECURSIVE FieldSum(_, _)
FieldSum(ss, field) ==
    IF ss = <<>> THEN 0 ELSE Head(ss)[field] + FieldSum(Tail(ss), field)

\* C7: for pairwise disjoint records that all begin at or after the start
\* of the job and span a positive time, the load is
\* (sum of u_i * d_i) / 100 / (max_end - min_start).
C7_DisjointLoad ==
    (/\ Returned
     /\ stats # <<>>
     /\ InJob(stats, start_time) = stats
     /\ PairwiseDisjoint(stats)
     /\ MaxEnd(stats) - MinStart(stats) > 0)
        => FracEq(Value(result).gpu_util,
                  <<WeightedSum(stats),
                    100 * (MaxEnd(stats) - MinStart(stats))>>)

\* C7 witness: two disjoint records of different durations and different
\* utilizations with a gap between them, the later one listed first.
C7_Witness ==
    /\ Returned
    /\ Len(stats) = 2
    /\ InJob(stats, start_time) = stats
    /\ stats[2].time = 1 /\ stats[2].gpuUtilization = 30
    /\ stats[1].startTime > EndTime(stats[2])
    /\ stats[1].time = 100 /\ stats[1].gpuUtilization = 50
    /\ Value(result).gpu_util[1] = 30 * 1 + 50 * 100

\* Records that share their start and their positive duration.
SameInterval(ss) ==
    /\ ss # <<>>
    /\ \A i \in DOMAIN ss :
         /\ ss[i].startTime = ss[1].startTime
         /\ ss[i].time = ss[1].time
         /\ ss[i].time > 0

\* C8: for records that all share one start (at or after the start of the
\* job) and one positive duration, the load is the sum of the utilizations
\* over 100 and the peak memory is the sum of the peak memories.
C8_FullOverlap ==
    (/\ Returned
     /\ InJob(stats, start_time) = stats
     /\ SameInterval(stats))
        => /\ FracEq(Value(result).gpu_util,
                     <<FieldSum(stats, "gpuUtilization"), 100>>)
           /\ Value(result).peak_mem = FieldSum(stats, "maxMemoryUsage")

\* C8 witness: two records over [0, 100) with utilizations 30 and 40 give
\* the load 0.7.
C8_Witness ==
    /\ Returned
    /\ start_time = 0
    /\ Len(stats) = 2
    /\ \A i \in 1..2 : stats[i].startTime = 0 /\ stats[i].time = 100
    /\ stats[1].gpuUtilization = 30 /\ stats[2].gpuUtilization = 40
    /\ FracEq(Value(result).gpu_util, <<7, 10>>)

\* C9: the records that began before the start of the job do not count at
\* all: the load and the peak memory are those of the aggregation of the
\* other records alone.
C9_EarlyExcluded ==
    Returned =>
        LET alone == Aggregate(InJob(stats, start_time),
                               Cluster.node1.memory)
        IN  /\ FracEq(Value(result).gpu_util, alone.gpu_util)
            /\ Value(result).peak_mem = alone.peak_mem

\* C9 witness: a record began before the start of the job and ends after
\* it, next to a record that began in the job.
C9_Witness ==
    /\ Returned
    /\ \E i, j \in DOMAIN stats :
         /\ stats[i].startTime < start_time
         /\ EndTime(stats[i]) > start_time
         /\ stats[j].startTime >= start_time
         /\ stats[j].time > 0

\* C10: when no record began at or after the start of the job, the load is
\* 0 and the peak memory is 0, and the load was not divided by zero.
C10_EmptyIsZero ==
    (Returned /\ InJob(stats, start_time) = <<>>)
        => /\ Value(result).gpu_util[1] = 0
           /\ Value(result).gpu_util[2] # 0
           /\ Value(result).peak_mem = 0

\* C10 witness: every record of the device began before the job.
C10_Witness ==
    /\ Returned
    /\ stats # <<>>
    /\ \A i \in DOMAIN stats :
         stats[i].startTime < start_time /\ stats[i].time > 0

\* --------------------------------------- CGroupStats.stop on its own
\* Every process is before main() and no stand-alone call of usage_stats
\* is made.
ProcsIdle ==
    /\ pc = [p \in Procs |-> "idle"]
    /\ action = [p \in Procs |-> None]
    /\ host = [p \in Procs |-> "node1"]
    /\ timeout = [p \in Procs |-> 0]
    /\ error = [p \in Procs |-> NoError]
    /\ lock = FALSE
    /\ db = [h \in Hosts |-> EmptyDb]
    /\ out = <<>>
    /\ run_time = [p \in Procs |-> Missing]
    /\ cpu_load = [p \in Procs |-> Missing]
    /\ num_cpus = [p \in Procs |-> Missing]
    /\ gpu_report = [p \in Procs |-> Missing]

AggIdle ==
    /\ stats = <<>>
    /\ start_time = 0
    /\ result = Missing

\* What one call reads: the baseline that start stored, the counters and
\* the cpuset of the cgroup, RunTime of the job description.
CGroupInputs ==
    {c \in [usage_percpu_old : CounterVectors, usage_percpu : CounterVectors,
            cpuset : CpuSets, seconds : RunTimes] :
        AtLeast(c.usage_percpu, Stored(c.usage_percpu_old))}

InitCpu ==
    /\ ProcsIdle
    /\ AggIdle
    /\ cgroup \in CGroupInputs
    /\ cgroup_result = Missing
    /\ nvml = NoNvml

\* Lines 230-247: what CGroupStats.stop returns or raises once the files
\* are read and the baseline is found.
cgroup_stop(usage_percpu, usage_percpu_old, cpuset, seconds) ==
    IF seconds * NsPerSecond = 0
    THEN [error |-> "ZeroDivisionError", value |-> Missing]
    ELSE [error |-> NoError,
          value |-> Stored(
              [cpu_load |-> CpuLoad(CpuTimes(usage_percpu, usage_percpu_old,
                                             cpuset), seconds),
               num_cpus |-> Len(CpuTimes(usage_percpu, usage_percpu_old,
                                         cpuset))])]

CGroupStop ==
    /\ cgroup_result = Missing
    /\ cgroup_result' = Stored(cgroup_stop(cgroup.usage_percpu,
                                           cgroup.usage_percpu_old,
                                           cgroup.cpuset, cgroup.seconds))
    /\ UNCHANGED <<procvars, aggvars, cgroup, nvml>>

NextCpu == CGroupStop

SpecCpu == InitCpu /\ [][NextCpu]_vars

\* The cores that a cpuset names.
CoreSet(cpuset) == {cpuset[k] : k \in DOMAIN cpuset}

\* sum of current[i] - baseline[i] over the cores i of S
RECURSIVE DeltaSum(_, _, _)
DeltaSum(S, current, baseline) ==
    IF S = {} THEN 0
    ELSE LET i == CHOOSE c \in S : TRUE
         IN  (current[i] - baseline[i])
             + DeltaSum(S \ {i}, current, baseline)

\* C11: for a positive run time, the CPU load that CGroupStats.stop returns
\* is the sum over the cores i of the cpuset of
\* (current[i] - baseline[i]) / (seconds * 1e9), cores outside the cpuset
\* add nothing, and the core count is the number of cores of the cpuset.
C11_CpuLoad ==
    (cgroup_result # Missing /\ cgroup.seconds > 0)
        => LET r == Value(cgroup_result)
           IN  /\ r.error = NoError
               /\ FracEq(Value(r.value).cpu_load,
                         <<DeltaSum(CoreSet(cgroup.cpuset),
                                    cgroup.usage_percpu,
                                    cgroup.usage_percpu_old),
                           cgroup.seconds * NsPerSecond>>)
               /\ Value(r.value).num_cpus
                     = Cardinality(CoreSet(cgroup.cpuset))

\* C11 witness: the cpuset is core 1 alone, both cores have run, and the
\* load is that of core 1.
C11_Witness ==
    /\ cgroup_result # Missing
    /\ cgroup.seconds = 1
    /\ cgroup.cpuset = <<1>>
    /\ cgroup.usage_percpu[0] - cgroup.usage_percpu_old[0] = 1
    /\ cgroup.usage_percpu[1] - cgroup.usage_percpu_old[1] = 1
    /\ Value(Value(cgroup_result).value).cpu_load = <<1, NsPerSecond>>
    /\ Value(Value(cgroup_result).value).num_cpus = 1

\* ---------------------------------------------- claims on main(), continued
\* A node that has no GPU to report on: no device, or no pynvml.
NoGpu(h) == ~(Cluster[h].pynvml /\ Cluster[h].devices > 0)

\* C12: the absence of GPUs is not an error: on a node without GPU devices
\* or without the NVML library no invocation is ended by an NVML error, and
\* a stop that ends without an error has printed the four non-GPU lines and
\* no GPU line.
C12_GpuAbsenceNoError ==
    \A p \in Procs :
        (Ended(p) /\ action[p] # None /\ NoGpu(host[p]))
            => /\ error[p] # "NVMLError"
               /\ (action[p] = "stop" /\ error[p] = NoError)
                     => LinesOf(p) = SubSeq(ReportLines, 1, 4)

\* -------------------------------------- claims on usage_stats, continued
\* The distinct endpoints of the records, and the sub-intervals between
\* adjacent ones.
Endpoints(ss) ==
    {ss[i].startTime : i \in DOMAIN ss} \cup {EndTime(ss[i]) : i \in DOMAIN ss}

AdjacentPairs(E) ==
    {ab \in E \X E :
        /\ ab[1] < ab[2]
        /\ \A c \in E : ~(ab[1] < c /\ c < ab[2])}

\* Sum of a field over the records that cover [a, b] fully.
CoverSum(ss, a, b, field) ==
    FieldSum(SelectSeq(ss, LAMBDA s : s.startTime <= a /\ EndTime(s) >= b),
             field)

PeakOverDistinct(ss) ==
    LET P == AdjacentPairs(Endpoints(ss))
    IN  IF P = {} THEN 0
        ELSE SetMax({CoverSum(ss, ab[1], ab[2], "maxMemoryUsage") : ab \in P})

\* C13: the peak memory is the maximum, over the sub-intervals between
\* adjacent distinct endpoints of the records of the job, of the sum of the
\* peak memories of the records that cover the sub-interval; two records
\* that meet in one instant give the larger of their two peak memories.
C13_PeakOverDistinctEndpoints ==
    Returned =>
        Value(result).peak_mem = PeakOverDistinct(InJob(stats, start_time))

\* The records of duration 0 that begin in the job.
ZeroRecords(st) == {z \in Records : z.time = 0 /\ z.startTime >= st}

\* C14: a record of duration 0 contributes nothing: whatever the records,
\* one more record of duration 0 that begins at or after the start of the
\* job leaves the load and the peak memory as they are; and records whose
\* endpoints all coincide give the load 0 without a division by zero.
C14_ZeroDurationNothing ==
    Returned =>
        /\ \A z \in ZeroRecords(start_time) :
             LET more == usage_stats(Append(stats, z), start_time,
                                     Cluster.node1.memory)
             IN  /\ FracEq(more.gpu_util, Value(result).gpu_util)
                 /\ more.peak_mem = Value(result).peak_mem
        /\ Cardinality(Endpoints(InJob(stats, start_time))) = 1
             => /\ Value(result).gpu_util[1] = 0
                /\ Value(result).gpu_util[2] # 0

\* ------------------------------------------ the NVML accessors on their own
\* A process on a node with pynvml calls num_gpus() and opens with-blocks of
\* NVMLHandle in any order.  nvml counts the nvmlInit calls that succeeded
\* (inits), the nvmlShutdown calls (shutdowns), the accessors that ended with
\* their own nvmlInit not shut down (leaked) and the accessors that called
\* nvmlShutdown although their nvmlInit had failed (stray).
InitNvml ==
    /\ ProcsIdle
    /\ AggIdle
    /\ cgroup = NoCGroup
    /\ cgroup_result = Missing
    /\ nvml = NoNvml

\* Lines 27-31: try: nvmlInit(); return nvmlDeviceGetCount()
\* finally: nvmlShutdown().  The finally clause runs whether nvmlInit
\* succeeded or raised.
NumGpusCall ==
    /\ nvml.calls < MaxCalls
    /\ \E init_ok \in BOOLEAN :
        nvml' = IF init_ok
                THEN [nvml EXCEPT !.calls = @ + 1, !.inits = @ + 1,
                                  !.shutdowns = @ + 1]
                ELSE [nvml EXCEPT !.calls = @ + 1, !.shutdowns = @ + 1,
                                  !.stray = @ + 1]
    /\ UNCHANGED <<procvars, aggvars, cgvars>>

\* Lines 56-65 and a block `with NVMLHandle(i) as h:`.  __enter__ calls
\* nvmlInit and nvmlDeviceGetHandleByIndex; __exit__ (nvmlShutdown) runs
\* when the body is left, by an exception or not, but not when __enter__
\* itself raises.
NVMLHandleBlock ==
    /\ nvml.calls < MaxCalls
    /\ \E init_ok \in BOOLEAN, handle_ok \in BOOLEAN :
        nvml' = IF ~init_ok
                THEN [nvml EXCEPT !.calls = @ + 1]
                ELSE IF ~handle_ok
                THEN [nvml EXCEPT !.calls = @ + 1, !.inits = @ + 1,
                                  !.leaked = @ + 1]
                ELSE [nvml EXCEPT !.calls = @ + 1, !.inits = @ + 1,
                                  !.shutdowns = @ + 1]
    /\ UNCHANGED <<procvars, aggvars, cgvars>>

NextNvml == NumGpusCall \/ NVMLHandleBlock

SpecNvml == InitNvml /\ [][NextNvml]_vars

\* C15: the NVML handles are bracketed on every path: once an accessor has
\* returned or failed, every nvmlInit that succeeded has had its one
\* nvmlShutdown, no nvmlShutdown was called without a successful nvmlInit
\* before it, and no nvmlInit is outstanding.
C15_Bracketed ==
    /\ nvml.shutdowns = nvml.inits
    /\ nvml.stray = 0
    /\ nvml.leaked = 0

\* ---------------------------------------------- claims on main(), continued
\* The positions at which a stop is about to re-read counters: the cgroup
\* files (CGroupStats.stop) and the GPU energy and accounting
\* (NVMLStats.stop).
CounterReads == {"cgroup_stop", "nvml_stop"}

\* An invocation holds the gate while it is inside the with-block and the
\* lock file exists.
HoldsGate(p) == lock /\ InSection(p)

\* C16: only the printing is inside the gate: a start never holds the gate,
\* and a stop that is about to re-read its counters does not hold it, so
\* that the re-reads of one node do not wait for the report of another.
C16_OnlyPrintingInGate ==
    \A p \in Procs :
        /\ action[p] = "start" => ~HoldsGate(p)
        /\ pc[p] \in CounterReads => ~HoldsGate(p)

\* The step is one of invocation p.
StepOf(p) == pc'[p] # pc[p] \/ timeout'[p] # timeout[p]

\* C17: a stop never changes or removes the snapshot: no step of a stop
\* invocation, successful or failing, changes the shelve of any host, and
\* the CPU load and the GPU energy that a stop computes are differences
\* against the baselines that the shelve of its host holds.
C17_StopKeepsSnapshot ==
    /\ [][\A p \in Procs :
            (action[p] = "stop" /\ StepOf(p)) => db' = db]_vars
    /\ [][\A p \in Procs :
            (pc[p] = "cgroup_stop" /\ pc'[p] = "stop_num_gpus")
              => \E cpuset \in CpuSets, usage_percpu \in CounterVectors :
                   /\ db'[host[p]].usage_percpu_old # Missing
                   /\ Value(cpu_load'[p])[1]
                        = DeltaSum(CoreSet(cpuset), usage_percpu,
                                   Value(db'[host[p]].usage_percpu_old))
                   /\ Value(cpu_load'[p])[1] >= 0]_vars
    /\ [][\A p \in Procs :
            (pc[p] = "nvml_stop" /\ pc'[p] = "print_gpu")
              => \E energy_usage \in
                      [0..(Cluster[host[p]].devices - 1) -> CounterValues] :
                   /\ db'[host[p]].energy_usage_old # Missing
                   /\ Value(gpu_report'[p]).energy_used
                        = SumSeq([k \in 1..Cluster[host[p]].devices |->
                             energy_usage[k - 1]
                             - Value(db'[host[p]].energy_usage_old)[k - 1]])
                   /\ Value(gpu_report'[p]).energy_used >= 0]_vars

\* C17 witness: after a start on the GPU node a stop there has printed its
\* whole report and ended, and both baselines are still in the shelve.
C17_Witness ==
    \E p, q \in Procs :
        /\ action[p] = "start" /\ host[p] = "node1" /\ pc[p] = "done"
        /\ action[q] = "stop" /\ host[q] = "node1" /\ pc[q] = "done"
        /\ LinesOf(q) = ReportLines
        /\ db.node1.usage_percpu_old # Missing
        /\ db.node1.energy_usage_old # Missing

\* C18: the lock file is removed only by the invocation that created it:
\* it exists exactly while one invocation is inside the with-block, it
\* goes away only by a step of the invocation that is at Semaphore.__exit__,
\* and an acquirer that ends in TimeoutError leaves the lock file in place
\* and has printed nothing.
C18_RemovedByCreatorOnly ==
    /\ [](/\ lock <=> (\E p \in Procs : InSection(p))
          /\ \A p, q \in Procs : (InSection(p) /\ InSection(q)) => p = q
          /\ \A p \in Procs :
               error[p] = "TimeoutError" => LinesOf(p) = <<>>)
    /\ [][\A p \in Procs :
            (StepOf(p) /\ lock /\ ~lock') => pc[p] = "sem_exit"]_vars
    /\ [][\A p \in Procs :
            (pc[p] = "sem_enter" /\ error'[p] = "TimeoutError")
              => (lock /\ lock')]_vars

\* C18 witness: one acquirer has given up without a line of output while
\* the creator of the lock file is still inside the with-block and has
\* printed.
C18_Witness ==
    \E p, q \in Procs :
        /\ error[p] = "TimeoutError" /\ LinesOf(p) = <<>>
        /\ InSection(q) /\ LinesOf(q) # <<>>
        /\ lock

\* ------------------------------------------------ a holder that is killed
\* The process is killed (SIGKILL, node failure) inside the with-block:
\* no Python code runs any more, so Semaphore.__exit__ never removes the
\* lock file.
Kill(p) ==
    /\ InSection(p)
    /\ pc' = [pc EXCEPT ![p] = "killed"]
    /\ run_time' = [run_time EXCEPT ![p] = Missing]
    /\ cpu_load' = [cpu_load EXCEPT ![p] = Missing]
    /\ num_cpus' = [num_cpus EXCEPT ![p] = Missing]
    /\ gpu_report' = [gpu_report EXCEPT ![p] = Missing]
    /\ UNCHANGED <<action, host, timeout, error, lock, db, out, purevars>>

NextCrash == Next \/ \E p \in Procs : Kill(p)

SpecCrash == Init /\ [][NextCrash]_vars

\* As FairSpec: a process in the loop of Semaphore.__enter__ eventually
\* makes its next attempt.
FairSpecCrash == SpecCrash /\ \A p \in Procs : WF_vars(SemaphoreEnter(p))

Killed(p) == pc[p] = "killed"

\* C19: there is no recovery from a killed holder: once a stop was killed
\* inside the with-block the lock file stays for ever, no waiting stop
\* acquires it or prints, and every stop that is in the loop of
\* Semaphore.__enter__ ends with TimeoutError and an empty report.
C19_NoRecovery ==
    /\ []((\E k \in Procs : Killed(k)) => lock)
    /\ [][\A k \in Procs : Killed(k) => Killed(k)']_vars
    /\ [][(\E k \in Procs : Killed(k))
            => \A q \in Procs :
                 (pc[q] = "sem_enter" /\ StepOf(q))
                    => /\ pc'[q] \in {"sem_enter", "failed"}
                       /\ out' = out]_vars
    /\ \A q \in Procs :
         ((\E k \in Procs : Killed(k)) /\ pc[q] = "sem_enter")
            ~> (/\ pc[q] = "failed"
                /\ error[q] = "TimeoutError"
                /\ LinesOf(q) = <<>>)

\* C19 witness: a holder was killed after it had printed, the lock file is
\* still there, and another stop has run out of its timeout with an empty
\* report.
C19_Witness ==
    \E k, q \in Procs :
        /\ Killed(k) /\ LinesOf(k) # <<>>
        /\ lock
        /\ pc[q] = "failed" /\ error[q] = "TimeoutError"
        /\ LinesOf(q) = <<>>

====
